---- MODULE Spec2Model ----
(***************************************************************************)
(* Model of the shipping-rate pipeline of the WooCommerce proxy server     *)
(* (src/server.js): the handler of POST /api/shipping/calculate, cut at    *)
(* its awaits into one action per continuation, with the upstream          *)
(* responses drawn from bounded sets.                                      *)
(*                                                                         *)
(* JavaScript values:                                                      *)
(*   - an object is a record whose DOMAIN holds the fields that are        *)
(*     present; an absent field reads as undefined;                        *)
(*   - a string the code parses or edits (cost, min_amount, descriptions)  *)
(*     is a tuple of one-character strings; a string the code only         *)
(*     compares or copies (zone name, method_id, country code, titles) is  *)
(*     a TLA+ string;                                                      *)
(*   - a number is Num(h), h the value in hundredths, or NaN; the numbers  *)
(*     drawn have at most two decimals and whole percentages, so products  *)
(*     and quotients are exact;                                            *)
(*   - a location always carries type and code, as upstream returns them.  *)
(***************************************************************************)
EXTENDS Integers, Sequences, FiniteSets, TLC

\* ------------------------------------------------------------ bounds
MaxZones == 2
MaxMethods == 2
MaxPasses == 2

\* ------------------------------------------------------------ numbers
NaN == [nan |-> TRUE, h |-> 0]
Num(h) == [nan |-> FALSE, h |-> h]

\* a * b, a and b in hundredths
NumMul(a, b) == IF a.nan \/ b.nan THEN NaN ELSE Num((a.h * b.h) \div 100)
\* a / b for b a non-zero number
NumDiv(a, b) == IF a.nan \/ b.nan THEN NaN ELSE Num((a.h * 100) \div b.h)
NumAdd(a, b) == IF a.nan \/ b.nan THEN NaN ELSE Num(a.h + b.h)
\* ToBoolean of a number: NaN and 0 are falsy
NumTruthy(a) == ~a.nan /\ a.h # 0
\* a > 0: every comparison with NaN is false
NumPositive(a) == ~a.nan /\ a.h > 0

\* ------------------------------------------------------------ strings
Digits == {"0", "1", "2", "3", "4", "5", "6", "7", "8", "9"}

DigitVal(c) ==
  CASE c = "0" -> 0 [] c = "1" -> 1 [] c = "2" -> 2 [] c = "3" -> 3
    [] c = "4" -> 4 [] c = "5" -> 5 [] c = "6" -> 6 [] c = "7" -> 7
    [] c = "8" -> 8 [] c = "9" -> 9

WhiteSpace == {" "}

RECURSIVE SkipWhiteSpace(_)
SkipWhiteSpace(s) ==
  IF s # <<>> /\ Head(s) \in WhiteSpace THEN SkipWhiteSpace(Tail(s)) ELSE s

RECURSIVE LeadingDigits(_)
LeadingDigits(s) ==
  IF s # <<>> /\ Head(s) \in Digits
    THEN <<Head(s)>> \o LeadingDigits(Tail(s))
    ELSE <<>>

RECURSIVE DecimalValue(_)
DecimalValue(ds) ==
  IF ds = <<>> THEN 0
  ELSE DecimalValue(SubSeq(ds, 1, Len(ds) - 1)) * 10 + DigitVal(ds[Len(ds)])

\* the first two fraction digits, as hundredths
FractionValue(ds) ==
  (IF Len(ds) >= 1 THEN DigitVal(ds[1]) * 10 ELSE 0)
  + (IF Len(ds) >= 2 THEN DigitVal(ds[2]) ELSE 0)

\* parseFloat(string): leading white space, an optional sign, the longest
\* prefix that is a decimal literal; NaN when there is none.  (Exponents and
\* "Infinity" are outside the alphabet of the strings drawn here.)
parseFloat(s) ==
  LET t == SkipWhiteSpace(s)
      signed == t # <<>> /\ Head(t) \in {"+", "-"}
      neg == t # <<>> /\ Head(t) = "-"
      u == IF signed THEN Tail(t) ELSE t
      ip == LeadingDigits(u)
      rest == SubSeq(u, Len(ip) + 1, Len(u))
      fp == IF rest # <<>> /\ Head(rest) = "." THEN LeadingDigits(Tail(rest)) ELSE <<>>
      mag == DecimalValue(ip) * 100 + FractionValue(fp)
  IN IF ip = <<>> /\ fp = <<>> THEN NaN
     ELSE Num(IF neg THEN 0 - mag ELSE mag)

\* String.prototype.includes(c), c one character
includes(s, c) == \E i \in 1..Len(s) : s[i] = c

\* String.prototype.replace(c, ''), c one character: the first occurrence only
RECURSIVE replaceFirst(_, _)
replaceFirst(s, c) ==
  IF s = <<>> THEN <<>>
  ELSE IF Head(s) = c THEN Tail(s)
  ELSE <<Head(s)>> \o replaceFirst(Tail(s), c)

\* the position of the first c in s, 0 when there is none
RECURSIVE indexOf(_, _)
indexOf(s, c) ==
  IF s = <<>> THEN 0
  ELSE IF Head(s) = c THEN 1
  ELSE LET k == indexOf(Tail(s), c) IN IF k = 0 THEN 0 ELSE k + 1

\* replace(/<[^>]*>/g, ''): every span from a '<' to the next '>' is removed;
\* a '<' with no '>' after it stays
RECURSIVE stripTags(_)
stripTags(s) ==
  IF s = <<>> THEN <<>>
  ELSE IF Head(s) = "<" /\ indexOf(Tail(s), ">") # 0
    THEN stripTags(SubSeq(s, indexOf(Tail(s), ">") + 2, Len(s)))
  ELSE <<Head(s)>> \o stripTags(Tail(s))

RECURSIVE trimEnd(_)
trimEnd(s) ==
  IF s # <<>> /\ s[Len(s)] \in WhiteSpace THEN trimEnd(SubSeq(s, 1, Len(s) - 1)) ELSE s

trim(s) == trimEnd(SkipWhiteSpace(s))

\* ------------------------------------------------------------ objects
Has(obj, f) == f \in DOMAIN obj

\* null / undefined where the code holds an object or nothing
Null == [null |-> TRUE]

\* the tags standing for the values of method.enabled: the booleans and a
\* truthy value that is not the boolean true
JsTrue == "true"
JsFalse == "false"
JsYes == "yes"

\* ------------------------------------------------------------ literals of the code
Sentinel == "Locations not covered by your other zones"
MinAmountTag == <<"m", "i", "n", "_", "a", "m", "o", "u", "n", "t">>
FreeDeliveryText == <<"F", "r", "e", "e", " ", "d", "e", "l", "i", "v", "e", "r", "y", " ", "t", "o", " ", "y", "o", "u", "r", " ", "a", "d", "d", "r", "e", "s", "s">>
FixedRateText == <<"F", "i", "x", "e", "d", " ", "r", "a", "t", "e", " ", "d", "e", "l", "i", "v", "e", "r", "y">>
StandardText == <<"S", "t", "a", "n", "d", "a", "r", "d", " ", "d", "e", "l", "i", "v", "e", "r", "y">>
PickupText == <<"P", "i", "c", "k", " ", "u", "p", " ", "f", "r", "o", "m", " ", "o", "u", "r", " ", "l", "o", "c", "a", "t", "i", "o", "n">>
DeliveryServiceText == <<"D", "e", "l", "i", "v", "e", "r", "y", " ", "s", "e", "r", "v", "i", "c", "e">>
NoZonesMessage == "No shipping zones available"
UpstreamMessage == "Request failed with status code 500"
TypeErrorMessage == "Cannot read properties of undefined"
FailedTag == "Failed to calculate shipping"

\* ------------------------------------------------------------ upstream results
Fail == [ok |-> FALSE]
Ok(d) == [ok |-> TRUE, data |-> d]

\* ------------------------------------------------------------ zone resolution
\* locations.find(location => location.type === 'country' &&
\*                            location.code === shipping_address.country)
\* "throw": reading .country of an absent shipping_address raises a TypeError,
\* which happens at the first location of type country; else "match" / "none".
\* a find callback that compares the code alone, whatever the location's type
RECURSIVE countryMatchAnyType(_, _)
countryMatchAnyType(locations, reqBody) ==
  IF locations = <<>> THEN "none"
  ELSE IF ~Has(reqBody, "shipping_address") THEN "throw"
  ELSE IF Has(reqBody.shipping_address, "country")
          /\ Head(locations).code = reqBody.shipping_address.country THEN "match"
  ELSE countryMatchAnyType(Tail(locations), reqBody)

RECURSIVE countryMatch(_, _)
countryMatch(locations, reqBody) ==
  IF locations = <<>> THEN "none"
  ELSE IF Head(locations).type # "country" THEN countryMatch(Tail(locations), reqBody)
  ELSE IF ~Has(reqBody, "shipping_address") THEN "throw"
  ELSE IF Has(reqBody.shipping_address, "country")
          /\ Head(locations).code = reqBody.shipping_address.country THEN "match"
  ELSE countryMatch(Tail(locations), reqBody)

\* zonesResponse.data.find(zone => zone.name !== Sentinel): its index, 0 if none
RECURSIVE findNonSentinel(_, _)
findNonSentinel(zs, i) ==
  IF i > Len(zs) THEN 0
  ELSE IF zs[i].name # Sentinel THEN i
  ELSE findNonSentinel(zs, i + 1)

\* a fallback that takes the first zone, whatever its name
fallbackFirst(zs) == IF Len(zs) >= 1 THEN zs[1] ELSE Null

\* a fallback that takes the last zone of the list
fallbackLast(zs) == IF Len(zs) >= 1 THEN zs[Len(zs)] ELSE Null

\* zonesResponse.data.find(...) || zonesResponse.data[0]
fallbackZone(zs) ==
  LET k == findNonSentinel(zs, 1)
  IN IF k # 0 THEN zs[k]
     ELSE IF Len(zs) >= 1 THEN zs[1]
     ELSE Null

\* ------------------------------------------------------------ method cost calculator
\* a filter on the truthiness of method.enabled
isTruthyEnabled(method) == Has(method, "enabled") /\ method.enabled # JsFalse

\* method.enabled === true
isEnabled(method) == Has(method, "enabled") /\ method.enabled = JsTrue

\* methodsResponse.data.filter(method => method.enabled === true)
RECURSIVE enabledMethods(_)
enabledMethods(ms) ==
  IF ms = <<>> THEN <<>>
  ELSE IF isEnabled(Head(ms)) THEN <<Head(ms)>> \o enabledMethods(Tail(ms))
  ELSE enabledMethods(Tail(ms))

\* item.price * item.quantity; an absent operand is undefined, the product NaN
itemValue(item) ==
  IF Has(item, "price") /\ Has(item, "quantity")
    THEN NumMul(item.price, item.quantity)
    ELSE NaN

\* cart_items.reduce((total, item) => total + item.price * item.quantity, 0)
RECURSIVE reduceTotal(_, _)
reduceTotal(items, total) ==
  IF items = <<>> THEN total
  ELSE reduceTotal(Tail(items), NumAdd(total, itemValue(Head(items))))

cartTotal(cart_items) == reduceTotal(cart_items, Num(0))

\* a cost that tries the flat amount before the percentage and the sentinel
methodCostFlatFirst(method, total) ==
  IF Has(method, "settings") /\ Has(method.settings, "cost")
    THEN LET settings == method.settings
             costValue == IF Has(settings.cost, "value") THEN settings.cost.value ELSE <<>>
         IN IF costValue = <<>> THEN Num(0)
            ELSE IF NumTruthy(parseFloat(costValue)) THEN parseFloat(costValue)
            ELSE IF includes(costValue, "%")
              THEN NumDiv(NumMul(total, parseFloat(replaceFirst(costValue, "%"))), Num(10000))
            ELSE IF costValue = MinAmountTag /\ Has(settings, "min_amount")
              THEN IF Has(settings.min_amount, "value")
                     THEN parseFloat(settings.min_amount.value)
                     ELSE NaN
            ELSE Num(0)
    ELSE Num(0)

\* the cost of one method, from method.settings.cost.value
methodCost(method, total) ==
  IF Has(method, "settings") /\ Has(method.settings, "cost")
    THEN LET settings == method.settings
             costValue == IF Has(settings.cost, "value") THEN settings.cost.value ELSE <<>>
         IN IF costValue = <<>> THEN Num(0)
            ELSE IF includes(costValue, "%")
              THEN LET percentage == parseFloat(replaceFirst(costValue, "%"))
                   IN NumDiv(NumMul(total, percentage), Num(10000))
            ELSE IF costValue = MinAmountTag
              THEN IF Has(settings, "min_amount")
                     THEN IF Has(settings.min_amount, "value")
                            THEN parseFloat(settings.min_amount.value)
                            ELSE NaN
                     ELSE Num(0)
            ELSE LET flat == parseFloat(costValue)
                 IN IF NumTruthy(flat) THEN flat ELSE Num(0)
    ELSE Num(0)

\* method_title || title || 'Shipping', overridden by a non-empty settings.title.value
methodTitle(method) ==
  IF Has(method, "settings") /\ Has(method.settings, "title")
     /\ Has(method.settings.title, "value") /\ method.settings.title.value # ""
    THEN method.settings.title.value
  ELSE IF Has(method, "method_title") /\ method.method_title # "" THEN method.method_title
  ELSE IF Has(method, "title") /\ method.title # "" THEN method.title
  ELSE "Shipping"

\* the description before defaulting
rawDescription(method) ==
  IF Has(method, "method_description") /\ method.method_description # <<>>
    THEN trim(stripTags(method.method_description))
  ELSE IF Has(method, "settings") /\ Has(method.settings, "description")
          /\ Has(method.settings.description, "value")
          /\ method.settings.description.value # <<>>
    THEN trim(stripTags(method.settings.description.value))
  ELSE <<>>

\* the switch on method.method_id
defaultDescription(method, cost) ==
  CASE method.method_id = "free_shipping" -> FreeDeliveryText
    [] method.method_id = "flat_rate" ->
         IF NumPositive(cost) THEN FixedRateText ELSE StandardText
    [] method.method_id = "local_pickup" -> PickupText
    [] OTHER -> DeliveryServiceText

\* a defaulting that only replaces an empty description
methodDescriptionEmptyOnly(method, cost) ==
  LET description == rawDescription(method)
  IN IF description = <<>>
       THEN defaultDescription(method, cost)
       ELSE description

methodDescription(method, cost) ==
  LET description == rawDescription(method)
  IN IF description = <<>> \/ Len(description) < 5
       THEN defaultDescription(method, cost)
       ELSE description

\* the callback of enabledMethods.map
toOption(method, total) ==
  LET cost == methodCost(method, total)
  IN [id |-> method.method_id,
      instance_id |-> method.instance_id,
      title |-> methodTitle(method),
      cost |-> cost,
      description |-> methodDescription(method, cost),
      enabled |-> method.enabled]

shippingOptions(ms, total) ==
  LET en == enabledMethods(ms)
  IN [i \in 1..Len(en) |-> toOption(en[i], total)]

\* ------------------------------------------------------------ the stock normalizer
\* undefined where the code holds a product or nothing (Null is null)
Undefined == [undefined |-> TRUE]

\* the values of product.stock_quantity: a number, a string, null
JsNumber(n) == [t |-> "number", n |-> n]
JsString(s) == [t |-> "string", s |-> s]
JsNull == [t |-> "null"]

\* Number(string): white space is trimmed; the empty string is 0; the whole
\* rest has to be a decimal literal, else NaN
StringToNumber(s) ==
  LET t == trim(s)
      u == IF t # <<>> /\ Head(t) \in {"+", "-"} THEN Tail(t) ELSE t
      ip == LeadingDigits(u)
      rest == SubSeq(u, Len(ip) + 1, Len(u))
      fp == IF rest # <<>> /\ Head(rest) = "." THEN LeadingDigits(Tail(rest)) ELSE <<>>
      consumed == Len(ip) + (IF rest # <<>> /\ Head(rest) = "." THEN 1 + Len(fp) ELSE 0)
  IN IF t = <<>> THEN Num(0)
     ELSE IF (ip # <<>> \/ fp # <<>>) /\ consumed = Len(u) THEN parseFloat(t)
     ELSE NaN

\* Number(value): a number is itself, null is 0, a string is converted
Number(v) ==
  CASE v.t = "number" -> v.n
    [] v.t = "null" -> Num(0)
    [] v.t = "string" -> StringToNumber(v.s)

\* a TypeError leaving parseStockInfo
Raised == [raised |-> TRUE]

\* a normalizer without the guard of its first line: the read of
\* product.stock_quantity raises on undefined and on null
parseStockInfoUnguarded(product) ==
  IF product \in {Undefined, Null} THEN Raised
  ELSE LET coerced == IF Has(product, "stock_quantity")
                        THEN Number(product.stock_quantity)
                        ELSE Num(0)
           quantity == IF /\ coerced = Num(0)
                          /\ Has(product, "stock_status")
                          /\ product.stock_status = "instock"
                        THEN Num(100)
                        ELSE coerced
       IN [f \in DOMAIN product \cup {"stock_quantity"} |->
             IF f = "stock_quantity" THEN JsNumber(quantity) ELSE product[f]]

\* parseStockInfo(product): the product with stock_quantity set (the code
\* assigns the field of its argument and returns the argument)
parseStockInfo(product) ==
  IF product \in {Undefined, Null} THEN product
  ELSE LET coerced == IF Has(product, "stock_quantity")
                        THEN Number(product.stock_quantity)
                        ELSE Num(0)
           quantity == IF /\ coerced = Num(0)
                          /\ Has(product, "stock_status")
                          /\ product.stock_status = "instock"
                        THEN Num(100)
                        ELSE coerced
       IN [f \in DOMAIN product \cup {"stock_quantity"} |->
             IF f = "stock_quantity" THEN JsNumber(quantity) ELSE product[f]]

\* ------------------------------------------------------------ the route tables
\* a path is the sequence of its segments; a segment of a route path is a
\* literal or a named parameter
Lit(x) == [lit |-> x]
Param(x) == [param |-> x]

Route(method, path, handler) == [method |-> method, path |-> path, handler |-> handler]

ProductsPath == <<Lit("api"), Lit("products")>>
FeaturedPath == <<Lit("api"), Lit("products"), Lit("featured")>>
ProductIdPath == <<Lit("api"), Lit("products"), Param("id")>>
RelatedProductsPath == <<Lit("api"), Lit("related-products")>>
ProductsRelatedPath == <<Lit("api"), Lit("products"), Lit("related")>>
PaymentGatewaysPath == <<Lit("api"), Lit("payment-gateways")>>
OrdersPath == <<Lit("api"), Lit("orders")>>
ZonesPath == <<Lit("api"), Lit("shipping"), Lit("zones")>>
ZoneMethodsPath == <<Lit("api"), Lit("shipping"), Lit("zones"), Param("zone_id"), Lit("methods")>>
CalculatePath == <<Lit("api"), Lit("shipping"), Lit("calculate")>>
HealthPath == <<Lit("health")>>

\* the app.get / app.post registrations of each server, in source order
ShippingServer ==
  <<Route("GET", ProductsPath, "products"),
    Route("GET", FeaturedPath, "featured"),
    Route("GET", ProductIdPath, "product"),
    Route("GET", RelatedProductsPath, "related"),
    Route("GET", PaymentGatewaysPath, "payment-gateways"),
    Route("POST", OrdersPath, "orders"),
    Route("GET", ZonesPath, "zones"),
    Route("GET", ZoneMethodsPath, "zone-methods"),
    Route("POST", CalculatePath, "calculate"),
    Route("GET", HealthPath, "health")>>

OrdersServer ==
  <<Route("GET", ProductsPath, "products"),
    Route("GET", FeaturedPath, "featured"),
    Route("GET", ProductIdPath, "product"),
    Route("GET", RelatedProductsPath, "related"),
    Route("GET", PaymentGatewaysPath, "payment-gateways"),
    Route("POST", OrdersPath, "orders"),
    Route("GET", HealthPath, "health")>>

CatalogServer ==
  <<Route("GET", ProductsPath, "products"),
    Route("GET", ProductIdPath, "product"),
    Route("GET", ProductsRelatedPath, "related"),
    Route("GET", HealthPath, "health")>>

Servers == {ShippingServer, OrdersServer, CatalogServer}

\* a route path matches a request path segment by segment; a parameter
\* matches any one segment
matchPath(routePath, path) ==
  /\ Len(routePath) = Len(path)
  /\ \A i \in 1..Len(path) : Has(routePath[i], "param") \/ routePath[i].lit = path[i]

\* req.params of a match: the parameters and the segments they stand for
RECURSIVE params(_, _)
params(routePath, path) ==
  IF routePath = <<>> THEN <<>>
  ELSE (IF Has(Head(routePath), "param")
          THEN <<[name |-> Head(routePath).param, value |-> Head(path)]>>
          ELSE <<>>)
       \o params(Tail(routePath), Tail(path))

\* the router: the first registered route of the method that matches; the
\* final 404 handler when there is none
NotFound == [handler |-> "404", params |-> <<>>]

RECURSIVE dispatch(_, _, _)
dispatch(routes, method, path) ==
  IF routes = <<>> THEN NotFound
  ELSE IF Head(routes).method = method /\ matchPath(Head(routes).path, path)
    THEN [handler |-> Head(routes).handler, params |-> params(Head(routes).path, path)]
  ELSE dispatch(Tail(routes), method, path)

\* ------------------------------------------------------------ state
VARIABLES
  inbound,          \* the requests of this run (ids of inbound POST /api/shipping/calculate calls)
  pc,               \* pc[r]: where handler r is suspended: idle, await_zones, await_locations, await_methods, done
  reqBody,          \* reqBody[r]: req.body
  zonesResponse,    \* zonesResponse[r]: the response of GET /shipping/zones, [data |-> list], Null before it
  zoneIdx,          \* zoneIdx[r]: position of the for-of loop in zonesResponse.data
  selectedZone,     \* selectedZone[r]
  calls,            \* calls[r]: the wooCommerceAPI.get calls issued, in order
  locLog,           \* locLog[r]: the settled location fetches, in order
  methodsResponse,  \* methodsResponse[r]: the response of the methods fetch, [data |-> list], Null before it
  responses,        \* responses[r]: the responses sent on res, in order
  original,         \* the product as the catalog returned it
  product,          \* the product object handed to parseStockInfo, as it is now
  passes,           \* how many times parseStockInfo was applied to product
  app,              \* the route table of the server that is running
  req,              \* the HTTP request at the router: [method, path]
  served            \* the handler the router ran for req and its req.params, Null before

shippingVars == <<inbound, pc, reqBody, zonesResponse, zoneIdx, selectedZone, calls,
                  locLog, methodsResponse, responses>>
stockVars == <<original, product, passes>>
routerVars == <<app, req, served>>
vars == <<shippingVars, stockVars, routerVars>>

ZonesCall == [op |-> "zones", zone |-> 0]
LocationsCall(zone) == [op |-> "locations", zone |-> zone.id]
MethodsCall(zone) == [op |-> "methods", zone |-> zone.id]

\* res.status(500).json({error: 'Failed to calculate shipping', message: error.message})
ErrorResponse(message) ==
  [status |-> 500, body |-> [error |-> FailedTag, message |-> message]]

\* res.json({shipping_options: shippingOptions, zone: selectedZone})
OkResponse(options, zone) ==
  [status |-> 200, body |-> [shipping_options |-> options, zone |-> zone]]

InitRequests(rs) ==
  /\ inbound = rs
  /\ pc = [r \in rs |-> "idle"]
  /\ reqBody = [r \in rs |-> Null]
  /\ zonesResponse = [r \in rs |-> Null]
  /\ zoneIdx = [r \in rs |-> 0]
  /\ selectedZone = [r \in rs |-> Null]
  /\ calls = [r \in rs |-> <<>>]
  /\ locLog = [r \in rs |-> <<>>]
  /\ methodsResponse = [r \in rs |-> Null]
  /\ responses = [r \in rs |-> <<>>]

\* ------------------------------------------------------------ the handler
\* the catch of the handler: one 500 response, the handler ends
Catch(r, message) ==
  /\ pc' = [pc EXCEPT ![r] = "done"]
  /\ responses' = [responses EXCEPT ![r] = Append(@, ErrorResponse(message))]

\* an end of the loop that answers an empty option list when there is no zone
AfterLoopSilent(r, zs, sel, cs) ==
  LET zone == IF sel # Null THEN sel ELSE fallbackZone(zs)
  IN /\ selectedZone' = [selectedZone EXCEPT ![r] = zone]
     /\ IF zone = Null
          THEN /\ pc' = [pc EXCEPT ![r] = "done"]
               /\ responses' = [responses EXCEPT ![r] = Append(@, OkResponse(<<>>, Null))]
               /\ calls' = [calls EXCEPT ![r] = cs]
          ELSE /\ pc' = [pc EXCEPT ![r] = "await_methods"]
               /\ calls' = [calls EXCEPT ![r] = Append(cs, MethodsCall(zone))]
               /\ UNCHANGED responses

\* an end of the loop whose selectedZone is one binding shared by every
\* handler (declared outside the handler)
AfterLoopShared(r, zs, sel, cs) ==
  LET zone == IF sel # Null THEN sel ELSE fallbackZone(zs)
  IN /\ selectedZone' = [q \in inbound |-> zone]
     /\ IF zone = Null
          THEN /\ Catch(r, NoZonesMessage)
               /\ calls' = [calls EXCEPT ![r] = cs]
          ELSE /\ pc' = [pc EXCEPT ![r] = "await_methods"]
               /\ calls' = [calls EXCEPT ![r] = Append(cs, MethodsCall(zone))]
               /\ UNCHANGED responses

\* after the loop: the fallback zone, the no-zone check, the methods fetch.
\* sel is the zone the loop selected (Null when none), cs the calls so far.
AfterLoop(r, zs, sel, cs) ==
  LET zone == IF sel # Null THEN sel ELSE fallbackZone(zs)
  IN /\ selectedZone' = [selectedZone EXCEPT ![r] = zone]
     /\ IF zone = Null
          THEN /\ Catch(r, NoZonesMessage)
               /\ calls' = [calls EXCEPT ![r] = cs]
          ELSE /\ pc' = [pc EXCEPT ![r] = "await_methods"]
               /\ calls' = [calls EXCEPT ![r] = Append(cs, MethodsCall(zone))]
               /\ UNCHANGED responses

\* the for-of loop after zone i was handled: break on a match, else the
\* location fetch of zone i + 1, else the end of the loop
NextZone(r, zs, i, matched, cs) ==
  IF matched
    THEN /\ zoneIdx' = [zoneIdx EXCEPT ![r] = i]
         /\ AfterLoop(r, zs, zs[i], cs)
  ELSE IF i < Len(zs)
    THEN /\ zoneIdx' = [zoneIdx EXCEPT ![r] = i + 1]
         /\ pc' = [pc EXCEPT ![r] = "await_locations"]
         /\ calls' = [calls EXCEPT ![r] = Append(cs, LocationsCall(zs[i + 1]))]
         /\ UNCHANGED <<selectedZone, responses>>
  ELSE /\ zoneIdx' = [zoneIdx EXCEPT ![r] = i]
       /\ AfterLoop(r, zs, Null, cs)

\* the request arrives: the body is destructured, the zone list is asked for
Receive(r, b) ==
  /\ pc[r] = "idle"
  /\ reqBody' = [reqBody EXCEPT ![r] = b]
  /\ calls' = [calls EXCEPT ![r] = Append(@, ZonesCall)]
  /\ pc' = [pc EXCEPT ![r] = "await_zones"]
  /\ UNCHANGED <<inbound, zonesResponse, zoneIdx, selectedZone, locLog,
                 methodsResponse, responses>>

\* GET /shipping/zones is rejected
ZonesRejected(r) ==
  /\ pc[r] = "await_zones"
  /\ Catch(r, UpstreamMessage)
  /\ UNCHANGED <<inbound, reqBody, zonesResponse, zoneIdx, selectedZone, calls,
                 locLog, methodsResponse>>

\* GET /shipping/zones resolves with the list zs
ZonesResolved(r, zs) ==
  /\ pc[r] = "await_zones"
  /\ zonesResponse' = [zonesResponse EXCEPT ![r] = [data |-> zs]]
  /\ NextZone(r, zs, 0, FALSE, calls[r])
  /\ UNCHANGED <<inbound, reqBody, locLog, methodsResponse>>

\* a rejected location fetch that reaches the handler's catch
LocationsRejectedFatal(r) ==
  /\ pc[r] = "await_locations"
  /\ locLog' = [locLog EXCEPT ![r] = Append(@, [zone |-> zonesResponse[r].data[zoneIdx[r]].id, res |-> Fail])]
  /\ Catch(r, UpstreamMessage)
  /\ UNCHANGED <<inbound, reqBody, zonesResponse, zoneIdx, selectedZone, calls,
                 methodsResponse>>

\* GET /shipping/zones/:id/locations is rejected: the inner catch, next zone
LocationsRejected(r) ==
  /\ pc[r] = "await_locations"
  /\ locLog' = [locLog EXCEPT ![r] = Append(@, [zone |-> zonesResponse[r].data[zoneIdx[r]].id, res |-> Fail])]
  /\ NextZone(r, zonesResponse[r].data, zoneIdx[r], FALSE, calls[r])
  /\ UNCHANGED <<inbound, reqBody, zonesResponse, methodsResponse>>

\* a find whose TypeError is not caught by the inner catch
LocationsResolvedUncaught(r, locations) ==
  /\ pc[r] = "await_locations"
  /\ locLog' = [locLog EXCEPT ![r] = Append(@, [zone |-> zonesResponse[r].data[zoneIdx[r]].id, res |-> Ok(locations)])]
  /\ IF countryMatch(locations, reqBody[r]) = "throw"
       THEN /\ Catch(r, TypeErrorMessage)
            /\ UNCHANGED <<zoneIdx, selectedZone, calls>>
       ELSE NextZone(r, zonesResponse[r].data, zoneIdx[r],
                     countryMatch(locations, reqBody[r]) = "match", calls[r])
  /\ UNCHANGED <<inbound, reqBody, zonesResponse, methodsResponse>>

\* GET /shipping/zones/:id/locations resolves with the list locations; a
\* TypeError of the find callback is caught by the inner catch like a rejection
LocationsResolved(r, locations) ==
  /\ pc[r] = "await_locations"
  /\ locLog' = [locLog EXCEPT ![r] = Append(@, [zone |-> zonesResponse[r].data[zoneIdx[r]].id, res |-> Ok(locations)])]
  /\ NextZone(r, zonesResponse[r].data, zoneIdx[r],
              countryMatch(locations, reqBody[r]) = "match", calls[r])
  /\ UNCHANGED <<inbound, reqBody, zonesResponse, methodsResponse>>

\* a rejected methods fetch answered as an empty option list
MethodsRejectedEmpty(r) ==
  /\ pc[r] = "await_methods"
  /\ pc' = [pc EXCEPT ![r] = "done"]
  /\ responses' = [responses EXCEPT ![r] = Append(@, OkResponse(<<>>, selectedZone[r]))]
  /\ UNCHANGED <<inbound, reqBody, zonesResponse, zoneIdx, selectedZone, calls,
                 locLog, methodsResponse>>

\* GET /shipping/zones/:id/methods is rejected
MethodsRejected(r) ==
  /\ pc[r] = "await_methods"
  /\ Catch(r, UpstreamMessage)
  /\ UNCHANGED <<inbound, reqBody, zonesResponse, zoneIdx, selectedZone, calls,
                 locLog, methodsResponse>>

\* a methods continuation whose TypeError leaves the handler: it ends
\* without a response
MethodsResolvedUnhandled(r, ms) ==
  /\ pc[r] = "await_methods"
  /\ methodsResponse' = [methodsResponse EXCEPT ![r] = [data |-> ms]]
  /\ pc' = [pc EXCEPT ![r] = "done"]
  /\ IF ~Has(reqBody[r], "cart_items")
       THEN UNCHANGED responses
       ELSE responses' = [responses EXCEPT ![r] =
              Append(@, OkResponse(shippingOptions(ms, cartTotal(reqBody[r].cart_items)),
                                   selectedZone[r]))]
  /\ UNCHANGED <<inbound, reqBody, zonesResponse, zoneIdx, selectedZone, calls, locLog>>

\* GET /shipping/zones/:id/methods resolves with the list ms: the filter, the
\* cart total (a TypeError when cart_items is absent), the map, the response
MethodsResolved(r, ms) ==
  /\ pc[r] = "await_methods"
  /\ methodsResponse' = [methodsResponse EXCEPT ![r] = [data |-> ms]]
  /\ IF ~Has(reqBody[r], "cart_items")
       THEN Catch(r, TypeErrorMessage)
       ELSE /\ pc' = [pc EXCEPT ![r] = "done"]
            /\ responses' = [responses EXCEPT ![r] =
                 Append(@, OkResponse(shippingOptions(ms, cartTotal(reqBody[r].cart_items)),
                                      selectedZone[r]))]
  /\ UNCHANGED <<inbound, reqBody, zonesResponse, zoneIdx, selectedZone, calls, locLog>>

\* ------------------------------------------------------------ inputs
\* Fields the code never reads stand for "nothing else": an object always has
\* some field, so that the objects of one set are records throughout.
OtherBodyField == [customer_id |-> 7]
OtherAddressField == [city |-> "Berlin"]
OtherMethodField == [order |-> 1]
OtherSetting == [tax_status |-> [value |-> "taxable"]]

\* cart items: price and quantity as numbers (10 x 2; 5.50 x 1 and 10 x 1)
ItemTen == [price |-> Num(1000), quantity |-> Num(200)]
ItemFiveFifty == [price |-> Num(550), quantity |-> Num(100)]
ItemTenOnce == [price |-> Num(1000), quantity |-> Num(100)]
ItemNoPrice == [quantity |-> Num(100)]

Carts == {<<>>, <<ItemTen>>, <<ItemFiveFifty, ItemTenOnce>>, <<ItemNoPrice>>}

\* shipping_address: absent, without country, DE, US
AddressParts ==
  {OtherBodyField, [shipping_address |-> OtherAddressField],
   [shipping_address |-> [country |-> "DE"]],
   [shipping_address |-> [country |-> "US"]]}

\* request bodies of the pipeline runs: cart_items absent or the 10 x 2 cart
Bodies == {c @@ a : c \in {OtherBodyField, [cart_items |-> <<ItemTen>>]}, a \in AddressParts}

ZoneNames == {"EU", "Rest of World", Sentinel}

ZoneListsOf(n) ==
  {[i \in 1..n |-> [id |-> i, name |-> f[i]]] : f \in [1..n -> ZoneNames]}

ZoneLists == UNION {ZoneListsOf(n) : n \in 0..MaxZones}

CountryDE == [type |-> "country", code |-> "DE"]
StateDE == [type |-> "state", code |-> "DE"]

LocationLists == {<<>>, <<CountryDE>>, <<StateDE>>, <<StateDE, CountryDE>>}

\* cost settings: the strings of settings.cost.value and settings.min_amount.value
TenPercent == <<"1", "0", "%">>
MinusTenPercent == <<"-", "1", "0", "%">>
WordPercent == <<"a", "b", "c", "%">>
BarePercent == <<"%">>
FiveFifty == <<"5", ".", "5", "0">>
MinusFive == <<"-", "5">>
Zero == <<"0">>
Word == <<"a", "b", "c">>
Three == <<"3">>
PaddedSeven == <<" ", "7">>

CostValues ==
  {<<>>, TenPercent, MinusTenPercent, WordPercent, BarePercent, FiveFifty,
   MinusFive, Zero, Word, PaddedSeven, MinAmountTag}

\* the cost-related part of method.settings: no cost, a cost without value,
\* a cost value, the min_amount sentinel with a min_amount setting
CostParts ==
  {OtherSetting, [cost |-> [id |-> "cost"]]}
  \cup {[cost |-> [value |-> v]] : v \in CostValues}
  \cup {[cost |-> [value |-> MinAmountTag], min_amount |-> a] :
          a \in {[id |-> "min_amount"], [value |-> Three], [value |-> Word]}}

\* descriptions, with markup
ShortHtml == <<"<", "p", ">", "H", "i", "<", "/", "p", ">">>
LongHtml == <<"<", "b", ">", "F", "a", "s", "t", "<", "/", "b", ">", " ", "d", "e", "l", "i", "v", "e", "r", "y", " ">>
OpenTag == <<"2", " ", "<", " ", "3", " ", "d", "a", "y", "s">>

\* the description-related parts: of the method, and of method.settings
MethodDescriptionParts ==
  {OtherMethodField} \cup {[method_description |-> d] : d \in {<<>>, ShortHtml, LongHtml}}

SettingsDescriptionParts ==
  {OtherSetting} \cup {[description |-> [value |-> d]] : d \in {OpenTag, ShortHtml}}

\* the title-related parts: of the method, and of method.settings
MethodTitleParts ==
  {OtherMethodField, [method_title |-> "Flat rate"], [method_title |-> "", title |-> "Courier"]}

SettingsTitleParts ==
  {[title |-> [value |-> ""]], [title |-> [value |-> "Express"]]}

MethodIds == {"flat_rate", "free_shipping", "local_pickup", "table_rate"}

SettingsParts ==
  {OtherMethodField}
  \cup {[settings |-> c @@ d @@ t] :
          c \in CostParts, d \in SettingsDescriptionParts, t \in SettingsTitleParts}

\* every method the calculator is applied to on its own
AllMethods ==
  {[method_id |-> id, instance_id |-> 1, enabled |-> e] @@ s @@ d @@ t :
     id \in MethodIds, e \in {JsTrue, JsFalse}, s \in SettingsParts,
     d \in MethodDescriptionParts, t \in MethodTitleParts}

\* the methods of the pipeline runs: an enabled percentage flat rate, a
\* disabled free shipping, a pickup whose enabled is truthy but not true
FlatRateMethod ==
  [method_id |-> "flat_rate", instance_id |-> 1, enabled |-> JsTrue,
   method_title |-> "Flat rate", settings |-> [cost |-> [value |-> TenPercent]]]
FreeShippingMethod ==
  [method_id |-> "free_shipping", instance_id |-> 2, enabled |-> JsFalse,
   method_title |-> "Free shipping", settings |-> OtherSetting]
PickupMethod ==
  [method_id |-> "local_pickup", instance_id |-> 3, enabled |-> JsYes,
   settings |-> [cost |-> [value |-> FiveFifty]]]

Methods == {FlatRateMethod, FreeShippingMethod, PickupMethod}

MethodLists == UNION {[1..n -> Methods] : n \in 0..MaxMethods}

\* ------------------------------------------------------------ specification
\* The pipeline: one request, every outcome of every upstream call.
\* no product is being normalized
NoProduct ==
  /\ original = Undefined
  /\ product = Undefined
  /\ passes = 0

\* the router has handed the request req to its handler on the server routes
Routed(routes, method, path) ==
  /\ app = routes
  /\ req = [method |-> method, path |-> path]
  /\ served = dispatch(routes, method, path)

Init ==
  /\ InitRequests({1})
  /\ NoProduct
  /\ Routed(ShippingServer, "POST", <<"api", "shipping", "calculate">>)

Next ==
  \/ \E r \in inbound : pc[r] = "idle" /\ \E b \in Bodies : Receive(r, b)
                         /\ UNCHANGED <<stockVars, routerVars>>
  \/ \E r \in inbound : ZonesRejected(r) /\ UNCHANGED <<stockVars, routerVars>>
  \/ \E r \in inbound : pc[r] = "await_zones" /\ \E zs \in ZoneLists : ZonesResolved(r, zs)
                         /\ UNCHANGED <<stockVars, routerVars>>
  \/ \E r \in inbound : LocationsRejected(r) /\ UNCHANGED <<stockVars, routerVars>>
  \/ \E r \in inbound : pc[r] = "await_locations"
                         /\ \E locations \in LocationLists : LocationsResolved(r, locations)
                         /\ UNCHANGED <<stockVars, routerVars>>
  \/ \E r \in inbound : MethodsRejected(r) /\ UNCHANGED <<stockVars, routerVars>>
  \/ \E r \in inbound : pc[r] = "await_methods" /\ \E ms \in MethodLists : MethodsResolved(r, ms)
                         /\ UNCHANGED <<stockVars, routerVars>>

Spec == Init /\ [][Next]_vars

\* The method cost calculator on its own: one zone that matches, one method
\* of AllMethods, every cart.
CalculatorBodies == {[cart_items |-> c, shipping_address |-> [country |-> "DE"]] : c \in Carts}

EuropeOnly == <<[id |-> 1, name |-> "EU"]>>

NextCalculator ==
  \/ \E r \in inbound : pc[r] = "idle" /\ \E b \in CalculatorBodies : Receive(r, b)
                         /\ UNCHANGED <<stockVars, routerVars>>
  \/ \E r \in inbound : ZonesResolved(r, EuropeOnly) /\ UNCHANGED <<stockVars, routerVars>>
  \/ \E r \in inbound : LocationsResolved(r, <<CountryDE>>) /\ UNCHANGED <<stockVars, routerVars>>
  \/ \E r \in inbound : pc[r] = "await_methods" /\ \E m \in AllMethods : MethodsResolved(r, <<m>>)
                         /\ UNCHANGED <<stockVars, routerVars>>

SpecCalculator == Init /\ [][NextCalculator]_vars

\* The stock normalizer on its own: a product of the catalog is handed to
\* parseStockInfo, and the result is handed to it again, up to MaxPasses times.
OtherProductField == [name |-> "Honey"]

QuantityParts ==
  {OtherProductField,
   [stock_quantity |-> JsNull],
   [stock_quantity |-> JsNumber(Num(0))],
   [stock_quantity |-> JsNumber(Num(300))],
   [stock_quantity |-> JsNumber(Num(-500))],
   [stock_quantity |-> JsNumber(NaN)],
   [stock_quantity |-> JsString(<<>>)],
   [stock_quantity |-> JsString(<<"0">>)],
   [stock_quantity |-> JsString(<<"7">>)],
   [stock_quantity |-> JsString(<<" ", "4", " ">>)],
   [stock_quantity |-> JsString(<<"2", ".", "5">>)],
   [stock_quantity |-> JsString(<<"-", "2">>)],
   [stock_quantity |-> JsString(<<"a", "b", "c">>)],
   [stock_quantity |-> JsString(<<"1", "2", "p", "c", "s">>)]}

StatusParts ==
  {OtherProductField, [stock_status |-> "instock"], [stock_status |-> "outofstock"],
   [stock_status |-> "onbackorder"]}

IdentityParts == {OtherProductField, [name |-> "Tea", id |-> 42]}

Products == {o @@ q @@ st : o \in IdentityParts, q \in QuantityParts, st \in StatusParts}

InitStock ==
  /\ InitRequests({})
  /\ original \in Products \cup {Undefined, Null}
  /\ product = original
  /\ passes = 0
  /\ Routed(ShippingServer, "GET", <<"api", "products", "42">>)

\* parseStockInfo(product), product being the object of the pass before
Normalize ==
  /\ passes < MaxPasses
  /\ product' = parseStockInfo(product)
  /\ passes' = passes + 1
  /\ UNCHANGED <<original, shippingVars, routerVars>>

NextStock == Normalize

SpecStock == InitStock /\ [][NextStock]_vars

\* Two calculations at once: the handlers interleave at their awaits.  Both
\* see the same two zones; the bodies differ in cart and country, and every
\* upstream call is answered on its own.
CountryUS == [type |-> "country", code |-> "US"]

CourierMethod ==
  [method_id |-> "flat_rate", instance_id |-> 4, enabled |-> JsTrue,
   method_title |-> "Courier", settings |-> [cost |-> [value |-> FiveFifty]]]

ConcurrentBodies ==
  {[cart_items |-> <<ItemTen>>, shipping_address |-> [country |-> "DE"]],
   [cart_items |-> <<ItemFiveFifty, ItemTenOnce>>, shipping_address |-> [country |-> "US"]]}

ConcurrentZones == <<[id |-> 1, name |-> "EU"], [id |-> 2, name |-> "Rest of World"]>>

ConcurrentLocations == {<<CountryDE>>, <<CountryUS>>}

ConcurrentMethods == {<<FlatRateMethod>>, <<CourierMethod, FlatRateMethod>>}

InitConcurrent ==
  /\ InitRequests({1, 2})
  /\ NoProduct
  /\ Routed(ShippingServer, "POST", <<"api", "shipping", "calculate">>)

NextConcurrent ==
  \/ \E r \in inbound : pc[r] = "idle" /\ \E b \in ConcurrentBodies : Receive(r, b)
                         /\ UNCHANGED <<stockVars, routerVars>>
  \/ \E r \in inbound : ZonesResolved(r, ConcurrentZones) /\ UNCHANGED <<stockVars, routerVars>>
  \/ \E r \in inbound : LocationsRejected(r) /\ UNCHANGED <<stockVars, routerVars>>
  \/ \E r \in inbound : pc[r] = "await_locations"
                         /\ \E locations \in ConcurrentLocations : LocationsResolved(r, locations)
                         /\ UNCHANGED <<stockVars, routerVars>>
  \/ \E r \in inbound : pc[r] = "await_methods"
                         /\ \E ms \in ConcurrentMethods : MethodsResolved(r, ms)
                         /\ UNCHANGED <<stockVars, routerVars>>

SpecConcurrent == InitConcurrent /\ [][NextConcurrent]_vars

\* The router on its own: one request on one of the servers.
HttpMethods == {"GET", "POST"}

RequestPaths ==
  {<<>>,
   <<"health">>,
   <<"api", "products">>,
   <<"api", "products", "featured">>,
   <<"api", "products", "related">>,
   <<"api", "products", "42">>,
   <<"api", "products", "42", "reviews">>,
   <<"api", "related-products">>,
   <<"api", "payment-gateways">>,
   <<"api", "orders">>,
   <<"api", "shipping", "zones">>,
   <<"api", "shipping", "zones", "1", "methods">>,
   <<"api", "shipping", "calculate">>}

InitRouter ==
  /\ InitRequests({})
  /\ NoProduct
  /\ app \in Servers
  /\ req \in [method : HttpMethods, path : RequestPaths]
  /\ served = Null

\* the router runs the handler of the first matching route
Handle ==
  /\ served = Null
  /\ served' = dispatch(app, req.method, req.path)
  /\ UNCHANGED <<app, req, shippingVars, stockVars>>

NextRouter == Handle

SpecRouter == InitRouter /\ [][NextRouter]_vars

\* ------------------------------------------------------------ properties
\* the request names a destination country
HasCountry(r) ==
  /\ Has(reqBody[r], "shipping_address")
  /\ Has(reqBody[r].shipping_address, "country")

\* a settled location fetch that succeeded with a location of type country
\* whose code is the destination country
EntryMatches(r, e) ==
  /\ e.res.ok
  /\ HasCountry(r)
  /\ \E i \in 1..Len(e.res.data) :
       /\ e.res.data[i].type = "country"
       /\ e.res.data[i].code = reqBody[r].shipping_address.country

NoEntryMatches(r) == \A k \in 1..Len(locLog[r]) : ~EntryMatches(r, locLog[r][k])

IsLocationsCall(c) == c.op = "locations"
IsMethodsCall(c) == c.op = "methods"
LocationCalls(r) == SelectSeq(calls[r], IsLocationsCall)
MethodCalls(r) == SelectSeq(calls[r], IsMethodsCall)

\* the loop of handler r is over
PastLoop(r) == zonesResponse[r] # Null /\ pc[r] \in {"await_methods", "done"}

\* handler r answered once, with status 200
Answered200(r) == Len(responses[r]) = 1 /\ responses[r][1].status = 200

\* C1: the zones are examined one at a time in upstream order; the zone the
\* loop selects is the first whose location fetch succeeded with a location of
\* type country and the destination country's code; no location fetch is
\* issued after that match, and the loop gives up only after every zone.
ZoneFirstMatchWins ==
  \A r \in inbound : zonesResponse[r] # Null =>
    LET zs == zonesResponse[r].data
        log == locLog[r]
        lc == LocationCalls(r)
    IN /\ Len(lc) <= Len(zs)
       /\ \A k \in 1..Len(lc) : lc[k] = LocationsCall(zs[k])
       /\ Len(lc) = IF pc[r] = "await_locations" THEN Len(log) + 1 ELSE Len(log)
       /\ \A k \in 1..Len(log) : log[k].zone = zs[k].id
       /\ \A k \in 1..(Len(log) - 1) : ~EntryMatches(r, log[k])
       /\ (Len(log) > 0 /\ EntryMatches(r, log[Len(log)])) =>
            /\ pc[r] # "await_locations"
            /\ selectedZone[r] = zs[Len(log)]
       /\ (pc[r] # "await_locations" /\ NoEntryMatches(r)) => Len(log) = Len(zs)

\* C1 witness: two zones, the first matches, the second is never asked for,
\* and the response names the first
ZoneFirstMatchWinsWitness ==
  \E r \in inbound :
    /\ pc[r] = "done" /\ Answered200(r)
    /\ Len(zonesResponse[r].data) = 2
    /\ Len(locLog[r]) = 1 /\ EntryMatches(r, locLog[r][1])
    /\ Len(LocationCalls(r)) = 1
    /\ responses[r][1].body.zone = zonesResponse[r].data[1]

\* the fallback of the specification: the first zone not named as the
\* catch-all, else the first zone
ExpectedFallback(zs) ==
  LET named == {i \in 1..Len(zs) : zs[i].name # Sentinel}
  IN IF named # {}
       THEN zs[CHOOSE i \in named : \A j \in named : i <= j]
       ELSE zs[1]

\* C2: with a non-empty zone list and no zone matching by country, the
\* selected zone is the first zone not named as the catch-all, and the first
\* zone of the list when every zone has that name.
FallbackZoneRule ==
  \A r \in inbound :
    (PastLoop(r) /\ Len(zonesResponse[r].data) > 0 /\ NoEntryMatches(r)) =>
      /\ selectedZone[r] = ExpectedFallback(zonesResponse[r].data)
      /\ Answered200(r) => responses[r][1].body.zone = ExpectedFallback(zonesResponse[r].data)

\* C2 witness: the catch-all zone first, a named zone second, no match: the
\* response names the second zone
FallbackZoneRuleWitness ==
  \E r \in inbound :
    /\ pc[r] = "done" /\ Answered200(r) /\ NoEntryMatches(r)
    /\ Len(zonesResponse[r].data) = 2
    /\ zonesResponse[r].data[1].name = Sentinel
    /\ zonesResponse[r].data[2].name = "EU"
    /\ responses[r][1].body.zone.id = 2

\* the example of the specification: zone 1 "EU" with the single location
\* country DE, zone 2 "Rest of World" with no locations, destination US
ExampleUS(r) ==
  /\ PastLoop(r)
  /\ zonesResponse[r].data = <<[id |-> 1, name |-> "EU"], [id |-> 2, name |-> "Rest of World"]>>
  /\ locLog[r] = <<[zone |-> 1, res |-> Ok(<<CountryDE>>)], [zone |-> 2, res |-> Ok(<<>>)]>>
  /\ HasCountry(r) /\ reqBody[r].shipping_address.country = "US"

\* C3 as stated: in the example the resolver returns zone 2.
ExampleReturnsZoneTwo ==
  \A r \in inbound : ExampleUS(r) => selectedZone[r].id = 2

\* C3 as amended: in the example the resolver returns zone 1, "EU", the first
\* zone not named as the catch-all.
ExampleReturnsZoneOne ==
  \A r \in inbound : ExampleUS(r) =>
    /\ selectedZone[r] = [id |-> 1, name |-> "EU"]
    /\ Answered200(r) => responses[r][1].body.zone = [id |-> 1, name |-> "EU"]

\* C3 witness: the example ran to its response
ExampleWitness ==
  \E r \in inbound : ExampleUS(r) /\ pc[r] = "done" /\ Answered200(r)

\* a location fetch of handler r fails in this step
LocationFetchFails(r) ==
  /\ pc[r] = "await_locations"
  /\ Len(locLog'[r]) = Len(locLog[r]) + 1
  /\ ~locLog'[r][Len(locLog'[r])].res.ok

\* C4: a failed location fetch ends nothing: no response is sent in that step,
\* the loop goes on with the location fetch of the next zone in order, and after
\* the last zone with the methods fetch of the selected (fallback) zone.
FailedLookupIsSkipped ==
  [][\A r \in inbound : LocationFetchFails(r) =>
       LET zs == zonesResponse[r].data
           i == zoneIdx[r]
       IN /\ responses'[r] = responses[r]
          /\ pc'[r] # "done"
          /\ i < Len(zs) =>
               /\ pc'[r] = "await_locations"
               /\ zoneIdx'[r] = i + 1
               /\ calls'[r] = Append(calls[r], LocationsCall(zs[i + 1]))
          /\ i >= Len(zs) =>
               /\ pc'[r] = "await_methods"
               /\ selectedZone'[r] = ExpectedFallback(zs)
               /\ calls'[r] = Append(calls[r], MethodsCall(ExpectedFallback(zs)))]_vars

\* C4 witness: the first zone's location fetch failed, the second zone
\* matched, and the request ended with a 200 naming the second zone
FailedLookupIsSkippedWitness ==
  \E r \in inbound :
    /\ pc[r] = "done" /\ Answered200(r)
    /\ Len(locLog[r]) = 2
    /\ ~locLog[r][1].res.ok
    /\ EntryMatches(r, locLog[r][2])
    /\ responses[r][1].body.zone = zonesResponse[r].data[2]

\* C5: an empty zone list ends the request with the no-zones error: one
\* response, not a 200, whose body is {error, message}; no location and no
\* methods fetch is issued.
EmptyZoneListFails ==
  \A r \in inbound : (zonesResponse[r] # Null /\ Len(zonesResponse[r].data) = 0) =>
    /\ pc[r] = "done"
    /\ Len(responses[r]) = 1
    /\ responses[r][1].status # 200
    /\ DOMAIN responses[r][1].body = {"error", "message"}
    /\ responses[r][1].body.message = NoZonesMessage
    /\ MethodCalls(r) = <<>>
    /\ calls[r] = <<ZonesCall>>

\* C5 witness: the zone list came back empty and the request was answered 500
EmptyZoneListFailsWitness ==
  \E r \in inbound :
    /\ zonesResponse[r] # Null /\ Len(zonesResponse[r].data) = 0
    /\ pc[r] = "done"
    /\ responses[r] = <<ErrorResponse(NoZonesMessage)>>

\* C6: a rejected zone-list fetch, and a rejected methods fetch, end the
\* request with one 500 response whose body is {error, message}, without
\* shipping_options; after a rejected zone-list fetch no other fetch is issued.
UpstreamFailureIs500 ==
  \A r \in inbound : pc[r] = "done" =>
    /\ zonesResponse[r] = Null =>
         /\ responses[r] = <<ErrorResponse(UpstreamMessage)>>
         /\ DOMAIN responses[r][1].body = {"error", "message"}
         /\ calls[r] = <<ZonesCall>>
    /\ (MethodCalls(r) # <<>> /\ methodsResponse[r] = Null) =>
         /\ responses[r] = <<ErrorResponse(UpstreamMessage)>>
         /\ DOMAIN responses[r][1].body = {"error", "message"}

\* C6 witness: the zone-list fetch was rejected and the request answered 500
UpstreamFailureIs500Witness ==
  \E r \in inbound :
    /\ pc[r] = "done" /\ zonesResponse[r] = Null
    /\ Len(responses[r]) = 1 /\ responses[r][1].status = 500
    /\ calls[r] = <<ZonesCall>>

\* C7 as stated: with the zone list fetched and non-empty and the selected
\* zone's methods fetched, the request ends with a 200 response.
OnlyRequiredFailuresEnd ==
  \A r \in inbound :
    (/\ zonesResponse[r] # Null /\ Len(zonesResponse[r].data) > 0
     /\ methodsResponse[r] # Null) =>
      pc[r] = "done" /\ Answered200(r)

\* C8: without a destination country no response is sent during resolution,
\* every zone is examined and none selected by country, the fallback zone is
\* selected and its methods are asked for; once they arrive (and the cart is
\* there) the answer is a 200.
MissingCountryFallsBack ==
  \A r \in inbound :
    (/\ reqBody[r] # Null /\ ~HasCountry(r)
     /\ zonesResponse[r] # Null /\ Len(zonesResponse[r].data) > 0) =>
      LET zs == zonesResponse[r].data
      IN IF pc[r] = "await_locations"
           THEN responses[r] = <<>>
           ELSE /\ Len(locLog[r]) = Len(zs)
                /\ selectedZone[r] = ExpectedFallback(zs)
                /\ MethodCalls(r) = <<MethodsCall(ExpectedFallback(zs))>>
                /\ (methodsResponse[r] # Null /\ Has(reqBody[r], "cart_items")) =>
                     /\ Answered200(r)
                     /\ responses[r][1].body.zone = ExpectedFallback(zs)

\* C8 witness: no shipping_address at all, a zone whose locations hold a
\* country, and a 200 naming the fallback zone
MissingCountryFallsBackWitness ==
  \E r \in inbound :
    /\ pc[r] = "done" /\ Answered200(r)
    /\ ~Has(reqBody[r], "shipping_address")
    /\ \E k \in 1..Len(locLog[r]) : locLog[r][k].res = Ok(<<CountryDE>>)
    /\ responses[r][1].body.zone = ExpectedFallback(zonesResponse[r].data)

PricedCart(items) ==
  \A i \in 1..Len(items) : Has(items[i], "price") /\ Has(items[i], "quantity")

\* the sum of price x quantity over the first n items, in hundredths
RECURSIVE SumOfItems(_, _)
SumOfItems(items, n) ==
  IF n = 0 THEN 0
  ELSE SumOfItems(items, n - 1) + (items[n].price.h * items[n].quantity.h) \div 100

\* C10: the cost of every option follows the precedence on
\* settings.cost.value: with a '%', cartTotal * percentage / 100, cartTotal the
\* sum of price x quantity; else for "min_amount", settings.min_amount.value as
\* a number, 0 when min_amount is absent; else the value as a flat number; and
\* 0 when settings.cost is absent (stated where the numbers parse and the cart
\* items are priced).
CostPrecedence ==
  \A r \in inbound : Answered200(r) =>
    LET method == methodsResponse[r].data[1]
        opts == responses[r][1].body.shipping_options
        items == reqBody[r].cart_items
        hasCost == Has(method, "settings") /\ Has(method.settings, "cost")
        value == method.settings.cost.value
    IN \A k \in 1..Len(opts) :
         LET cost == opts[k].cost
         IN /\ ~hasCost => cost = Num(0)
            /\ (hasCost /\ Has(method.settings.cost, "value") /\ value # <<>>) =>
                 IF includes(value, "%")
                   THEN (PricedCart(items) /\ ~parseFloat(replaceFirst(value, "%")).nan) =>
                          /\ ~cost.nan
                          /\ cost.h * 10000
                               = SumOfItems(items, Len(items)) * parseFloat(replaceFirst(value, "%")).h
                 ELSE IF value = MinAmountTag
                   THEN /\ ~Has(method.settings, "min_amount") => cost = Num(0)
                        /\ (/\ Has(method.settings, "min_amount")
                            /\ Has(method.settings.min_amount, "value")
                            /\ ~parseFloat(method.settings.min_amount.value).nan) =>
                             cost = parseFloat(method.settings.min_amount.value)
                 ELSE ~parseFloat(value).nan => cost = parseFloat(value)

\* C10 witness: the cart of one item, price 10 and quantity 2, and an enabled
\* method at "10%": one option, of cost 2
CostPrecedenceWitness ==
  \E r \in inbound :
    /\ Answered200(r)
    /\ reqBody[r].cart_items = <<ItemTen>>
    /\ Has(methodsResponse[r].data[1], "settings")
    /\ Has(methodsResponse[r].data[1].settings, "cost")
    /\ methodsResponse[r].data[1].settings.cost = [value |-> TenPercent]
    /\ Len(responses[r][1].body.shipping_options) = 1
    /\ responses[r][1].body.shipping_options[1].cost = Num(200)

\* C11 as stated: every option returned has a cost that is a number >= 0 (an
\* unparseable cost string in any branch gives cost 0, never NaN, never a
\* negative cost).
CostIsNonNegativeNumber ==
  \A r \in inbound : Answered200(r) =>
    \A k \in 1..Len(responses[r][1].body.shipping_options) :
      /\ ~responses[r][1].body.shipping_options[k].cost.nan
      /\ responses[r][1].body.shipping_options[k].cost.h >= 0

\* a string field that is present and not empty
NonEmpty(obj, f) == Has(obj, f) /\ obj[f] # <<>>

\* the description text the claim starts from: method_description if present,
\* else settings.description.value if present, else nothing
DescriptionSource(method) ==
  IF NonEmpty(method, "method_description") THEN method.method_description
  ELSE IF /\ Has(method, "settings") /\ Has(method.settings, "description")
          /\ NonEmpty(method.settings.description, "value")
    THEN method.settings.description.value
  ELSE <<>>

\* the default description of the claim, by method type
ExpectedDefault(method, cost) ==
  IF method.method_id = "free_shipping" THEN FreeDeliveryText
  ELSE IF method.method_id = "flat_rate"
    THEN (IF ~cost.nan /\ cost.h > 0 THEN FixedRateText ELSE StandardText)
  ELSE IF method.method_id = "local_pickup" THEN PickupText
  ELSE DeliveryServiceText

\* the description of the claim, text the cleaned-up description source
ExpectedDescription(method, cost, text) ==
  IF Len(text) < 5 THEN ExpectedDefault(method, cost) ELSE text

\* C12 as stated: the description is the tag-stripped source text, replaced by
\* the default of the method type when empty or shorter than 5 characters.
DescriptionIsStripped ==
  \A r \in inbound : Answered200(r) =>
    LET method == methodsResponse[r].data[1]
        opts == responses[r][1].body.shipping_options
    IN \A k \in 1..Len(opts) :
         opts[k].description
           = ExpectedDescription(method, opts[k].cost, stripTags(DescriptionSource(method)))

\* C12 as amended: the description is the tag-stripped source text with the
\* white space at its ends removed, replaced by the default of the method type
\* when that text is empty or shorter than 5 characters.
DescriptionIsStrippedAndTrimmed ==
  \A r \in inbound : Answered200(r) =>
    LET method == methodsResponse[r].data[1]
        opts == responses[r][1].body.shipping_options
    IN \A k \in 1..Len(opts) :
         opts[k].description
           = ExpectedDescription(method, opts[k].cost,
                                 trim(stripTags(DescriptionSource(method))))

\* C12 witness: an enabled flat_rate method of cost 0 whose description strips
\* to "Hi" is answered with "Standard delivery"
DescriptionWitness ==
  \E r \in inbound :
    /\ Answered200(r)
    /\ methodsResponse[r].data[1].method_id = "flat_rate"
    /\ Has(methodsResponse[r].data[1], "method_description")
    /\ methodsResponse[r].data[1].method_description = ShortHtml
    /\ Len(responses[r][1].body.shipping_options) = 1
    /\ responses[r][1].body.shipping_options[1].cost = Num(0)
    /\ responses[r][1].body.shipping_options[1].description = StandardText

\* a response of the contract: 200 {shipping_options, zone} or 500 {error, message}
ResponseShape(resp) ==
  \/ resp.status = 200 /\ DOMAIN resp.body = {"shipping_options", "zone"}
  \/ resp.status = 500 /\ DOMAIN resp.body = {"error", "message"}

\* handler r waits for an upstream call it issued and that has not settled
AwaitsUpstream(r) ==
  /\ calls[r] # <<>>
  /\ \/ /\ pc[r] = "await_zones"
        /\ calls[r][Len(calls[r])] = ZonesCall
        /\ zonesResponse[r] = Null
     \/ /\ pc[r] = "await_locations"
        /\ calls[r][Len(calls[r])] = LocationsCall(zonesResponse[r].data[zoneIdx[r]])
        /\ Len(locLog[r]) = zoneIdx[r] - 1
     \/ /\ pc[r] = "await_methods"
        /\ calls[r][Len(calls[r])] = MethodsCall(selectedZone[r])
        /\ methodsResponse[r] = Null

\* C13: a request is answered at most once, a handler that ended has answered
\* exactly once, with 200 {shipping_options, zone} or 500 {error, message}, and
\* a request that is received and not answered waits for an upstream call that
\* has not settled, whose settling it can take.
ExactlyOneResponse ==
  \A r \in inbound :
    /\ Len(responses[r]) <= 1
    /\ pc[r] = "done" <=> Len(responses[r]) = 1
    /\ \A k \in 1..Len(responses[r]) : ResponseShape(responses[r][k])
    /\ pc[r] \notin {"idle", "done"} => AwaitsUpstream(r) /\ ENABLED Next

\* C13 witness: the TypeError of a missing cart_items was answered as a 500
ExactlyOneResponseWitness ==
  \E r \in inbound :
    /\ pc[r] = "done"
    /\ methodsResponse[r] # Null
    /\ responses[r] = <<ErrorResponse(TypeErrorMessage)>>

\* ------------------------------------------------------------ the stock normalizer
\* parseStockInfo has processed a product that is neither undefined nor null
Normalized == passes >= 1 /\ original \notin {Undefined, Null}

\* C14: after the stock normalizer processed a non-null product,
\* stock_quantity is a number that is neither NaN nor negative, and a missing
\* quantity has become 0, or 1 when stock_status is "instock".
QuantityIsNonNegativeNumber ==
  Normalized =>
    /\ product.stock_quantity.t = "number"
    /\ ~product.stock_quantity.n.nan
    /\ product.stock_quantity.n.h >= 0
    /\ ~Has(original, "stock_quantity") =>
         product.stock_quantity.n =
           (IF Has(original, "stock_status") /\ original.stock_status = "instock"
              THEN Num(100) ELSE Num(0))

\* every field but stock_quantity is as it was; undefined and null are
\* returned as they are
OtherFieldsKept(before, after) ==
  IF before \in {Undefined, Null} THEN after = before
  ELSE /\ DOMAIN after = DOMAIN before \cup {"stock_quantity"}
       /\ \A f \in DOMAIN before \ {"stock_quantity"} : after[f] = before[f]

\* C15: every application of the stock normalizer returns without raising
\* and changes no field but stock_quantity, and applying it to its own result
\* changes nothing: normalize(normalize(x)) = normalize(x).
NormalizerTotalAndIdempotent ==
  [][passes' = passes + 1 =>
       /\ product' # Raised
       /\ OtherFieldsKept(product, product')
       /\ passes >= 1 => product' = product]_vars

\* a product in stock without a quantity was normalized twice: quantity 1,
\* the other fields in place
NormalizerWitness ==
  /\ passes = 2
  /\ original = [name |-> "Tea", id |-> 42, stock_status |-> "instock"]
  /\ product = [name |-> "Tea", id |-> 42, stock_status |-> "instock",
                stock_quantity |-> JsNumber(Num(100))]

\* ------------------------------------------------------------ the router
RelatedRequest == req = [method |-> "GET", path |-> <<"api", "products", "related">>]

\* C17: GET /api/products/related is served by the related-products handler,
\* not by the single-product handler with id "related".
RelatedServedByRelatedHandler ==
  RelatedRequest /\ served # Null => served.handler = "related"

\* ------------------------------------------------------------ concurrent requests
\* everything handler r holds
Local(r) ==
  <<pc[r], reqBody[r], zonesResponse[r], zoneIdx[r], selectedZone[r], calls[r],
    locLog[r], methodsResponse[r], responses[r]>>

\* the zone that follows from the address of request r and the answers to
\* its own zone and location calls
OwnZone(r) ==
  LET zs == zonesResponse[r].data
      hits == {k \in 1..Len(locLog[r]) : EntryMatches(r, locLog[r][k])}
  IN IF hits # {}
       THEN zs[CHOOSE k \in hits : \A j \in hits : k <= j]
       ELSE ExpectedFallback(zs)

\* the methods call of r names its own zone, and so does its answer, whose
\* options are those of its own methods response and its own cart
OwnAnswer(r) ==
  /\ pc[r] = "await_methods" => calls[r][Len(calls[r])] = MethodsCall(OwnZone(r))
  /\ Answered200(r) =>
       responses[r][1].body =
         [zone |-> OwnZone(r),
          shipping_options |-> shippingOptions(methodsResponse[r].data,
                                               cartTotal(reqBody[r].cart_items))]

\* C16: with two calculations interleaving at their upstream calls, a step
\* of one handler leaves everything the other holds unchanged, and each
\* request's zone and options follow from its own cart, its own address and
\* the answers to its own calls.
RequestsAreIsolated ==
  /\ [](\A r \in inbound : OwnAnswer(r))
  /\ [][\E r \in inbound : \A q \in inbound \ {r} : Local(q)' = Local(q)]_vars

\* both requests were answered: one for zone 1 with the options of its
\* 20.00 cart, one for zone 2 with the options of its 15.50 cart, and the
\* first of the two answers was sent while the other was still waiting
RequestsAreIsolatedWitness ==
  \E r, q \in inbound :
    /\ r # q
    /\ Answered200(r) /\ Answered200(q)
    /\ responses[r][1].body.zone.id = 1 /\ responses[q][1].body.zone.id = 2
    /\ methodsResponse[r].data = <<FlatRateMethod>>
    /\ methodsResponse[q].data = <<FlatRateMethod>>
    /\ responses[r][1].body.shipping_options[1].cost = Num(200)
    /\ responses[q][1].body.shipping_options[1].cost = Num(155)

====
